---- MODULE Spec2Model ----
(***************************************************************************)
(* Model of utilities/decorators.py: the nc_dump decorator (disk-backed    *)
(* memoization of a function returning an xarray Dataset).                 *)
(*                                                                         *)
(* Python strings are sequences of one-character strings.  Python values   *)
(* passed as arguments are records [t, n, s, e]: t is the type, n the      *)
(* integer of an int, s the characters of a str, e the elements of a tuple *)
(* or list.                                                                *)
(*                                                                         *)
(* The decorators cache, count_calls and repeat of the same file are       *)
(* modelled by the variables cache, num_calls, started, num_times, dpc and *)
(* dcall.                                                                  *)
(***************************************************************************)
EXTENDS Integers, Sequences, FiniteSets, TLC

VARIABLES cfg, cwd, fs, pc, inv, prev, nruns,
          cache, num_calls, started, num_times, dpc, dcall

\* the state of nc_dump
ncvars == <<cfg, cwd, fs, pc, inv, prev, nruns>>

\* the state of cache, count_calls and repeat
decovars == <<cache, num_calls, started, num_times, dpc, dcall>>

vars == <<ncvars, decovars>>

(***************************************************************************)
(* Bounds and universes                                                    *)
(***************************************************************************)
\* nc_dump(..., keep_chars=15)
DefaultKeepChars == 15

\* number of files present before the first call
MaxInitFiles == 1

\* number of process runs in the path-resolution specification
MaxRuns == 2

Procs == {1, 2}

\* processes that run in the sequential specifications
SeqProcs == {1}

\* None where a str is expected (filename, store_path): no str has this form
None == <<"None">>

\* None where a Dataset is expected
NoneDs == "None"

IntV(i) == [t |-> "int", n |-> i, s |-> <<>>, e |-> <<>>]

StrV(str) == [t |-> "str", n |-> 0, s |-> str, e |-> <<>>]

TupleV(el) == [t |-> "tuple", n |-> 0, s |-> <<>>, e |-> el]

ListV(el) == [t |-> "list", n |-> 0, s |-> <<>>, e |-> el]

NoneV == [t |-> "none", n |-> 0, s |-> <<>>, e |-> <<>>]

\* the keyword recognised at call time
NC_DUMP_FILE == <<"n", "c", "_", "d", "u", "m", "p", "_", "f", "i", "l", "e">>

NC_DUMP == <<"n", "c", "_", "d", "u", "m", "p">>

DOT_NC == <<".", "n", "c">>

(***************************************************************************)
(* Python and os.path primitives                                           *)
(***************************************************************************)
Digit == <<"0", "1", "2", "3", "4", "5", "6", "7", "8", "9">>

RECURSIVE DigitsOf(_)
DigitsOf(i) ==
    IF i < 10 THEN <<Digit[i + 1]>>
    ELSE DigitsOf(i \div 10) \o <<Digit[(i % 10) + 1]>>

\* str(i) of an int
IntStr(i) == IF i < 0 THEN <<"-">> \o DigitsOf(0 - i) ELSE DigitsOf(i)

\* faulty join: the separator is left out
RECURSIVE JoinNoSep(_, _)
JoinNoSep(sep, strs) ==
    IF strs = <<>> THEN <<>>
    ELSE Head(strs) \o JoinNoSep(sep, Tail(strs))

\* sep.join(strs)
RECURSIVE StrJoin(_, _)
StrJoin(sep, strs) ==
    IF strs = <<>> THEN <<>>
    ELSE IF Len(strs) = 1 THEN Head(strs)
    ELSE Head(strs) \o sep \o StrJoin(sep, Tail(strs))

\* str(v)
PyStr(v) ==
    CASE v.t = "int" -> IntStr(v.n)
      [] v.t = "str" -> v.s
      [] v.t = "none" -> <<"N", "o", "n", "e">>
      [] v.t = "tuple" ->
           IF Len(v.e) = 1 THEN <<"(">> \o IntStr(v.e[1]) \o <<",", ")">>
           ELSE <<"(">> \o StrJoin(<<",", " ">>, [i \in 1..Len(v.e) |-> IntStr(v.e[i])]) \o <<")">>
      [] v.t = "list" ->
           <<"[">> \o StrJoin(<<",", " ">>, [i \in 1..Len(v.e) |-> IntStr(v.e[i])]) \o <<"]">>

\* faulty replace: nothing is removed
ReplaceNothing(str, badstr) == str

\* s.replace(badstr, '') for a one-character badstr
Replace(str, badstr) == SelectSeq(str, LAMBDA c : c # badstr)

BadStrs == <<" ", ":", "(", ")", "[", "]", "\n", ",", ".">>

\* for badstr in [...]: nc_filename = nc_filename.replace(badstr, '')
RECURSIVE StripFrom(_, _)
StripFrom(str, i) ==
    IF i > Len(BadStrs) THEN str
    ELSE StripFrom(Replace(str, BadStrs[i]), i + 1)

\* faulty slice: nothing is cut
SliceAll(str, k) == str

\* s[:k], Python slice semantics (a negative k counts from the end)
SliceTo(str, k) ==
    LET stop == IF k < 0 THEN (IF Len(str) + k < 0 THEN 0 ELSE Len(str) + k)
                ELSE (IF k > Len(str) THEN Len(str) ELSE k)
    IN  SubSeq(str, 1, stop)

\* posixpath.join(a, b)
OsPathJoin(a, b) ==
    IF b # <<>> /\ Head(b) = "/" THEN b
    ELSE IF a = <<>> \/ a[Len(a)] = "/" THEN a \o b
    ELSE a \o <<"/">> \o b

(***************************************************************************)
(* Path resolution, decorators.py lines 142-157                            *)
(***************************************************************************)
\* faulty test: the keyword is never recognised
HasOverrideNever(kwargs) == FALSE

\* 'nc_dump_file' in kwargs.keys() and kwargs['nc_dump_file'] is not None
HasOverride(kwargs) ==
    \E i \in 1..Len(kwargs) : kwargs[i][1] = NC_DUMP_FILE /\ kwargs[i][2] # NoneV

OverrideValue(kwargs) ==
    LET i == CHOOSE j \in 1..Len(kwargs) : kwargs[j][1] = NC_DUMP_FILE
    IN  kwargs[i][2].s

\* args + tuple([str(k)+str(v) for k,v in kwargs.items()])
AllArgs(args, kwargs) ==
    args \o [i \in 1..Len(kwargs) |-> StrV(kwargs[i][1] \o PyStr(kwargs[i][2]))]

AutoFilename(keep_chars, args, kwargs) ==
    LET all_args == AllArgs(args, kwargs)
        joined == StrJoin(<<"_">>, [i \in 1..Len(all_args) |-> PyStr(all_args[i])])
    IN  SliceTo(StripFrom(joined, 1), keep_chars) \o DOT_NC

\* faulty precedence: the keyword is looked at before the configured filename
NcFilenameOverrideFirst(c, args, kwargs) ==
    IF HasOverride(kwargs) THEN OverrideValue(kwargs)
    ELSE IF c.filename # None THEN c.filename
    ELSE AutoFilename(c.keep_chars, args, kwargs)

NcFilename(c, args, kwargs) ==
    IF c.filename = None
    THEN IF HasOverride(kwargs) THEN OverrideValue(kwargs)
         ELSE AutoFilename(c.keep_chars, args, kwargs)
    ELSE c.filename

\* faulty directory: store_path is ignored
NcDirCwdOnly(c, dir) == OsPathJoin(dir, NC_DUMP)

NcDir(c, dir) ==
    IF c.store_path = None THEN OsPathJoin(dir, NC_DUMP)
    ELSE OsPathJoin(c.store_path, NC_DUMP)

NcFullpath(c, dir, args, kwargs) == OsPathJoin(NcDir(c, dir), NcFilename(c, args, kwargs))

(***************************************************************************)
(* Configurations, arguments and the filesystem                            *)
(***************************************************************************)
Config(f, sp, k) == [filename |-> f, store_path |-> sp, keep_chars |-> k]

Cwds == {<<"/", "w">>, <<"/", "v">>}

R_NC == <<"r", ".", "n", "c">>

O_NC == <<"o", ".", "n", "c">>

\* decorations exercised against the filesystem
MainConfigs ==
    {Config(f, sp, k) : f \in {None, R_NC}, sp \in {None, <<"/", "s">>},
                        k \in {DefaultKeepChars, 1}}

MainArgs == {<<IntV(1), IntV(2)>>, <<IntV(1), IntV(3)>>}

MainKwargs == {<<>>, << <<NC_DUMP_FILE, StrV(O_NC)>> >>}

\* what the wrapped function can return: a Dataset or None
Datasets == {"d1", "d2"}

Dir == [kind |-> "dir", fmt |-> "-", data |-> "-"]

\* a file written by Dataset.to_netcdf
NcFile(ds) == [kind |-> "file", fmt |-> "netcdf", data |-> ds]

\* a file that is not a readable netCDF file
Junk == [kind |-> "file", fmt |-> "junk", data |-> "-"]

NoEntry == [kind |-> "absent", fmt |-> "-", data |-> "-"]

EmptyFs == [x \in {} |-> NoEntry]

Entry(path) == IF path \in DOMAIN fs THEN fs[path] ELSE NoEntry

\* os.path.isfile, os.path.isdir
OsPathIsFile(path) == Entry(path).kind = "file"

OsPathIsDir(path) == Entry(path).kind = "dir"

\* filesystems the first call can meet: nothing there, something that is not
\* a directory at nc_dir, or nc_dir holding up to MaxInitFiles files
InitialFilesystems(c, dir) ==
    LET nd == NcDir(c, dir)
        paths == {NcFullpath(c, dir, a, k) : a \in MainArgs, k \in MainKwargs}
        chosen == {S \in SUBSET paths : Cardinality(S) <= MaxInitFiles}
        files == UNION {[S -> {NcFile("d1"), Junk}] : S \in chosen}
    IN  {EmptyFs, nd :> Junk} \cup {(nd :> Dir) @@ f : f \in files}

\* repeat(..., num_times=2)
DefaultNumTimes == 2

\* no call of a decorated function yet
NoCall ==
    [deco |-> "-", args |-> <<>>, kwargs |-> <<>>, i |-> 0, value |-> "unset",
     cval |-> [args |-> <<>>, kwargs |-> <<>>], st |-> "none", err |-> "-"]

\* wrapper_cache.cache = dict(), wrapper_count_calls.num_calls = 0
DecoInit ==
    /\ cache = <<>>
    /\ num_calls = 0
    /\ started = 0
    /\ num_times = DefaultNumTimes
    /\ dpc = "idle"
    /\ dcall = NoCall

NoInv ==
    [args |-> <<>>, kwargs |-> <<>>, nc_filename |-> <<>>, nc_dir |-> <<>>,
     nc_fullpath |-> <<>>, cwd |-> <<>>, found |-> "unknown", seen |-> NoEntry,
     ds |-> "unset", ncalled |-> 0, st |-> "none",
     err |-> "-", dir0 |-> "absent", last |-> FALSE]

Init ==
    /\ cfg \in MainConfigs
    /\ cwd \in Cwds
    /\ fs \in InitialFilesystems(cfg, cwd)
    /\ pc = [p \in Procs |-> "idle"]
    /\ inv = [p \in Procs |-> NoInv]
    /\ prev = NoInv
    /\ nruns = 1
    /\ DecoInit

(***************************************************************************)
(* wrapper_nc_dump, one action per statement that reads or writes the      *)
(* filesystem                                                              *)
(***************************************************************************)
\* lines 142-157: the call enters the wrapper and resolves its path
Call(p, args, kwargs) ==
    /\ pc[p] \in {"idle", "done", "raised"}
    /\ inv' = [inv EXCEPT ![p] =
                 [args |-> args, kwargs |-> kwargs,
                  nc_filename |-> NcFilename(cfg, args, kwargs),
                  nc_dir |-> NcDir(cfg, cwd),
                  nc_fullpath |-> NcFullpath(cfg, cwd, args, kwargs),
                  cwd |-> cwd, found |-> "unknown", seen |-> NoEntry,
                  ds |-> "unset", ncalled |-> 0, st |-> "running",
                  err |-> "-", dir0 |-> Entry(NcDir(cfg, cwd)).kind, last |-> FALSE]]
    /\ prev' = IF pc[p] = "idle" THEN prev ELSE inv[p]
    /\ pc' = [pc EXCEPT ![p] = "isfile"]
    /\ UNCHANGED <<decovars, cfg, cwd, fs, nruns>>

\* faulty check: the function is called although the file is there
IsFileThenCompute(p) ==
    /\ pc[p] = "isfile"
    /\ inv' = [inv EXCEPT ![p].found = IF OsPathIsFile(inv[p].nc_fullpath) THEN "yes" ELSE "no",
                          ![p].seen = Entry(inv[p].nc_fullpath)]
    /\ pc' = [pc EXCEPT ![p] = "func"]
    /\ UNCHANGED <<decovars, cfg, cwd, fs, prev, nruns>>

\* line 158: if os.path.isfile(nc_fullpath)
IsFile(p) ==
    /\ pc[p] = "isfile"
    /\ LET hit == OsPathIsFile(inv[p].nc_fullpath) IN
       /\ inv' = [inv EXCEPT ![p].found = IF hit THEN "yes" ELSE "no",
                             ![p].seen = Entry(inv[p].nc_fullpath)]
       /\ pc' = [pc EXCEPT ![p] = IF hit THEN "open" ELSE "func"]
    /\ UNCHANGED <<decovars, cfg, cwd, fs, prev, nruns>>

\* faulty read: an unreadable file makes the wrapper call the function
OpenDatasetFallback(p) ==
    /\ pc[p] = "open"
    /\ LET e == Entry(inv[p].nc_fullpath) IN
       IF e.kind = "file" /\ e.fmt = "netcdf"
       THEN /\ inv' = [inv EXCEPT ![p].ds = e.data, ![p].st = "returned"]
            /\ pc' = [pc EXCEPT ![p] = "done"]
       ELSE /\ inv' = inv
            /\ pc' = [pc EXCEPT ![p] = "func"]
    /\ UNCHANGED <<decovars, cfg, cwd, fs, prev, nruns>>

\* faulty read: the function is called again and its result returned
OpenDatasetRecompute(p) ==
    /\ pc[p] = "open"
    /\ \E r \in Datasets :
          inv' = [inv EXCEPT ![p].ds = r, ![p].ncalled = @ + 1, ![p].st = "returned"]
    /\ pc' = [pc EXCEPT ![p] = "done"]
    /\ UNCHANGED <<decovars, cfg, cwd, fs, prev, nruns>>

\* lines 159, 166: ds = xarray.open_dataset(nc_fullpath); return ds
OpenDataset(p) ==
    /\ pc[p] = "open"
    /\ LET e == Entry(inv[p].nc_fullpath) IN
       IF e.kind = "file" /\ e.fmt = "netcdf"
       THEN /\ inv' = [inv EXCEPT ![p].ds = e.data, ![p].st = "returned"]
            /\ pc' = [pc EXCEPT ![p] = "done"]
       ELSE /\ inv' = [inv EXCEPT ![p].st = "raised", ![p].err = "open"]
            /\ pc' = [pc EXCEPT ![p] = "raised"]
    /\ UNCHANGED <<decovars, cfg, cwd, fs, prev, nruns>>

\* line 161: ds = func(*args, **kwargs)
CallFunc(p) ==
    /\ pc[p] = "func"
    /\ \E r \in Datasets \cup {NoneDs} :
          inv' = [inv EXCEPT ![p].ds = r, ![p].ncalled = @ + 1]
    /\ pc' = [pc EXCEPT ![p] = "isdir"]
    /\ UNCHANGED <<decovars, cfg, cwd, fs, prev, nruns>>

\* line 162: if not os.path.isdir(nc_dir)
IsDir(p) ==
    /\ pc[p] = "isdir"
    /\ pc' = [pc EXCEPT ![p] = IF OsPathIsDir(inv[p].nc_dir) THEN "tonetcdf" ELSE "makedirs"]
    /\ UNCHANGED <<decovars, cfg, cwd, fs, inv, prev, nruns>>

\* line 163: os.makedirs(nc_dir), FileExistsError when the path is taken
MakeDirs(p) ==
    /\ pc[p] = "makedirs"
    /\ IF inv[p].nc_dir \in DOMAIN fs
       THEN /\ inv' = [inv EXCEPT ![p].st = "raised", ![p].err = "makedirs"]
            /\ pc' = [pc EXCEPT ![p] = "raised"]
            /\ fs' = fs
       ELSE /\ fs' = (inv[p].nc_dir :> Dir) @@ fs
            /\ pc' = [pc EXCEPT ![p] = "tonetcdf"]
            /\ inv' = inv
    /\ UNCHANGED <<decovars, cfg, cwd, prev, nruns>>

\* faulty store: the result is returned without being written
ToNetcdfNoWrite(p) ==
    /\ pc[p] = "tonetcdf"
    /\ inv' = [inv EXCEPT ![p].st = "returned"]
    /\ pc' = [pc EXCEPT ![p] = "done"]
    /\ UNCHANGED <<decovars, cfg, cwd, fs, prev, nruns>>

\* the invocations after p has written to its path with the given outcome:
\* last marks the invocation whose complete write to the path is the latest
AfterWrite(p, outcome) ==
    [q \in Procs |->
        IF q = p
        THEN [inv[p] EXCEPT !.st = IF outcome = "ok" THEN "returned" ELSE "raised",
                            !.err = IF outcome = "ok" THEN "-" ELSE "write",
                            !.last = (outcome = "ok")]
        ELSE IF outcome # "error" /\ inv[q].nc_fullpath = inv[p].nc_fullpath
        THEN [inv[q] EXCEPT !.last = FALSE]
        ELSE inv[q]]

\* faulty store: a file that is already there is not overwritten
ToNetcdfKeepExisting(p) ==
    /\ pc[p] = "tonetcdf"
    /\ fs' = IF inv[p].ds = NoneDs \/ inv[p].nc_fullpath \in DOMAIN fs THEN fs
             ELSE (inv[p].nc_fullpath :> NcFile(inv[p].ds)) @@ fs
    /\ inv' = IF inv[p].ds = NoneDs THEN [inv EXCEPT ![p].st = "returned"]
              ELSE AfterWrite(p, "ok")
    /\ pc' = [pc EXCEPT ![p] = "done"]
    /\ UNCHANGED <<decovars, cfg, cwd, prev, nruns>>

\* faulty store: a failed write is swallowed and the result returned
ToNetcdfSwallow(p) ==
    /\ pc[p] = "tonetcdf"
    /\ IF inv[p].ds = NoneDs
       THEN fs' = fs
       ELSE \E outcome \in {"ok", "error", "partial"} :
            fs' = CASE outcome = "ok" -> (inv[p].nc_fullpath :> NcFile(inv[p].ds)) @@ fs
                    [] outcome = "error" -> fs
                    [] outcome = "partial" -> (inv[p].nc_fullpath :> Junk) @@ fs
    /\ inv' = [inv EXCEPT ![p].st = "returned"]
    /\ pc' = [pc EXCEPT ![p] = "done"]
    /\ UNCHANGED <<decovars, cfg, cwd, prev, nruns>>

\* lines 164-166: if ds is not None: ds.to_netcdf(nc_fullpath); return ds
\* The write succeeds, or fails leaving no file, or fails leaving a partial
\* file.
ToNetcdf(p) ==
    /\ pc[p] = "tonetcdf"
    /\ IF inv[p].ds = NoneDs
       THEN /\ fs' = fs
            /\ inv' = [inv EXCEPT ![p].st = "returned"]
            /\ pc' = [pc EXCEPT ![p] = "done"]
       ELSE \E outcome \in {"ok", "error", "partial"} :
            /\ fs' = CASE outcome = "ok" -> (inv[p].nc_fullpath :> NcFile(inv[p].ds)) @@ fs
                       [] outcome = "error" -> fs
                       [] outcome = "partial" -> (inv[p].nc_fullpath :> Junk) @@ fs
            /\ inv' = AfterWrite(p, outcome)
            /\ pc' = [pc EXCEPT ![p] = IF outcome = "ok" THEN "done" ELSE "raised"]
    /\ UNCHANGED <<decovars, cfg, cwd, prev, nruns>>

Step(p) ==
    \/ IsFile(p)
    \/ OpenDataset(p)
    \/ CallFunc(p)
    \/ IsDir(p)
    \/ MakeDirs(p)
    \/ ToNetcdf(p)

\* sequential calls of one decorated function in one process run
Next ==
    \E p \in SeqProcs :
        \/ \E args \in MainArgs, kwargs \in MainKwargs : Call(p, args, kwargs)
        \/ Step(p)

Spec == Init /\ [][Next]_vars

(***************************************************************************)
(* Two concurrent invocations: each process calls the decorated function   *)
(* once, and the statements of the two invocations interleave.             *)
(***************************************************************************)
CallOnce(p, args, kwargs) ==
    /\ pc[p] = "idle"
    /\ Call(p, args, kwargs)

NextConc ==
    \E p \in Procs :
        \/ \E args \in MainArgs, kwargs \in MainKwargs : CallOnce(p, args, kwargs)
        \/ Step(p)

SpecConc == Init /\ [][NextConc]_vars

(***************************************************************************)
(* Path resolution across process runs: the decorated function is called,  *)
(* the wrapper resolves its path (lines 142-157), and the process run ends; *)
(* the next run may start in another working directory.                    *)
(***************************************************************************)
ResolveConfigs ==
    {Config(f, sp, k) : f \in {None, R_NC, <<"/", "a">>}, sp \in {None, <<"/", "s">>},
                        k \in {0 - 1, 0, 2, DefaultKeepChars}}

ResolveArgs ==
    { <<>>,
      <<IntV(1), IntV(2)>>,
      <<IntV(12)>>,
      <<TupleV(<<1, 2>>), ListV(<<3>>)>>,
      <<StrV(<<"a", ".", " ", ":", "\n", "b">>)>>,
      <<IntV(0 - 5), TupleV(<<7>>)>>,
      <<IntV(1234567), IntV(89012345), IntV(6)>> }

K_KEY == <<"k">>

J_KEY == <<"j">>

ResolveKwargs ==
    { <<>>,
      << <<K_KEY, IntV(1)>> >>,
      << <<K_KEY, IntV(1)>>, <<J_KEY, StrV(<<"x", ".", "y">>)>> >>,
      << <<J_KEY, StrV(<<"x", ".", "y">>)>>, <<K_KEY, IntV(1)>> >>,
      << <<NC_DUMP_FILE, StrV(<<"o", " ", "v", ".", "n", "c">>)>> >>,
      << <<NC_DUMP_FILE, NoneV>> >>,
      << <<K_KEY, IntV(1)>>, <<NC_DUMP_FILE, StrV(<<"(", "o", ")">>)>> >> }

InitResolve ==
    /\ cfg \in ResolveConfigs
    /\ cwd \in Cwds
    /\ fs = EmptyFs
    /\ pc = [p \in Procs |-> "idle"]
    /\ inv = [p \in Procs |-> NoInv]
    /\ prev = NoInv
    /\ nruns = 1
    /\ DecoInit

\* the process run ends and the program is started again; os.getcwd() (line
\* 154) reads the working directory of the new run
NewRun ==
    /\ nruns < MaxRuns
    /\ pc[1] # "idle"
    /\ nruns' = nruns + 1
    /\ cwd' \in Cwds
    /\ prev' = inv[1]
    /\ pc' = [p \in Procs |-> "idle"]
    /\ UNCHANGED <<decovars, cfg, fs, inv>>

NextResolve ==
    \/ \E args \in ResolveArgs, kwargs \in ResolveKwargs : Call(1, args, kwargs)
    \/ NewRun

SpecResolve == InitResolve /\ [][NextResolve]_vars

(***************************************************************************)
(* The decorators cache, count_calls and repeat.  A program calls the      *)
(* three decorated functions one after the other, in any order.  A         *)
(* positional argument is a tuple (name, value), written <<name, value>>;  *)
(* keyword arguments are the sequence kwargs.items() of such tuples.       *)
(***************************************************************************)
MaxCalls == 3

MaxTimes == 2

A_1 == <<"a", 1>>

B_2 == <<"b", 2>>

DecoArgs == {<<>>, <<A_1>>}

DecoKwargs == {<<>>, <<A_1>>, <<B_2>>}

\* what the wrapped function returns, and "raise" when it raises
FuncValues == {"v1", "v2"}

FuncOutcomes == FuncValues \cup {"raise"}

\* the wrapped function of cache is pure: its value names its arguments
FuncOf(args, kwargs) == [args |-> args, kwargs |-> kwargs]

\* cache_key = args + tuple(kwargs.items())
CacheKey(args, kwargs) == args \o kwargs

Begin(deco, args, kwargs) ==
    [NoCall EXCEPT !.deco = deco, !.args = args, !.kwargs = kwargs,
                   !.st = "running"]

\* cache: the wrapper, one call
wrapper_cache(args, kwargs) ==
    LET cache_key == CacheKey(args, kwargs)
        call == Begin("cache", args, kwargs)
    IN  /\ dpc = "idle"
        /\ IF cache_key \notin DOMAIN cache
           THEN \/ /\ cache' = (cache_key :> FuncOf(args, kwargs)) @@ cache
                   /\ dcall' = [call EXCEPT !.cval = FuncOf(args, kwargs),
                                            !.st = "returned"]
                \/ /\ cache' = cache
                   /\ dcall' = [call EXCEPT !.st = "raised", !.err = "func"]
           ELSE /\ cache' = cache
                /\ dcall' = [call EXCEPT !.cval = cache[cache_key],
                                         !.st = "returned"]
        /\ UNCHANGED <<ncvars, num_calls, started, num_times, dpc>>

NumCallsSetOne(n) == 1

\* wrapper_count_calls.num_calls += 1
NumCallsPlusOne(n) == n + 1

\* count_calls: the wrapper up to the call of the wrapped function
wrapper_count_calls(args, kwargs) ==
    /\ dpc = "idle"
    /\ started < MaxCalls
    /\ started' = started + 1
    /\ num_calls' = NumCallsPlusOne(num_calls)
    /\ dcall' = [Begin("count", args, kwargs) EXCEPT !.i = started + 1]
    /\ dpc' = "count_func"
    /\ UNCHANGED <<ncvars, cache, num_times>>

\* count_calls: return func(*args, **kwargs)
CountFunc ==
    /\ dpc = "count_func"
    /\ \E out \in FuncOutcomes :
           dcall' = IF out = "raise"
                    THEN [dcall EXCEPT !.st = "raised", !.err = "func"]
                    ELSE [dcall EXCEPT !.st = "returned", !.value = out]
    /\ dpc' = "idle"
    /\ UNCHANGED <<ncvars, cache, num_calls, started, num_times>>

\* repeat: the wrapper up to the loop
wrapper_repeat(args, kwargs) ==
    /\ dpc = "idle"
    /\ dcall' = Begin("repeat", args, kwargs)
    /\ dpc' = "repeat_loop"
    /\ UNCHANGED <<ncvars, cache, num_calls, started, num_times>>

\* repeat: one pass of for _ in range(num_times); i counts the passes
RepeatBody ==
    /\ dpc = "repeat_loop"
    /\ dcall.i < num_times
    /\ \E out \in FuncOutcomes :
           IF out = "raise"
           THEN /\ dcall' = [dcall EXCEPT !.st = "raised", !.err = "func"]
                /\ dpc' = "idle"
           ELSE /\ dcall' = [dcall EXCEPT !.value = out, !.i = @ + 1]
                /\ dpc' = "repeat_loop"
    /\ UNCHANGED <<ncvars, cache, num_calls, started, num_times>>

\* repeat: return value, a local that only the loop body assigns
RepeatReturn ==
    /\ dpc = "repeat_loop"
    /\ dcall.i = num_times
    /\ dcall' = IF dcall.value = "unset"
                THEN [dcall EXCEPT !.st = "raised",
                                   !.err = "UnboundLocalError"]
                ELSE [dcall EXCEPT !.st = "returned"]
    /\ dpc' = "idle"
    /\ UNCHANGED <<ncvars, cache, num_calls, started, num_times>>

InitDeco ==
    /\ cfg = Config(None, None, DefaultKeepChars)
    /\ cwd = <<"/", "w">>
    /\ fs = EmptyFs
    /\ pc = [p \in Procs |-> "idle"]
    /\ inv = [p \in Procs |-> NoInv]
    /\ prev = NoInv
    /\ nruns = 1
    /\ cache = <<>>
    /\ num_calls = 0
    /\ started = 0
    /\ num_times \in 0..MaxTimes
    /\ dpc = "idle"
    /\ dcall = NoCall

NextDeco ==
    \/ \E args \in DecoArgs, kwargs \in DecoKwargs :
           wrapper_cache(args, kwargs)
    \/ \E args \in DecoArgs, kwargs \in DecoKwargs :
           wrapper_count_calls(args, kwargs)
    \/ CountFunc
    \/ \E args \in DecoArgs, kwargs \in DecoKwargs :
           wrapper_repeat(args, kwargs)
    \/ RepeatBody
    \/ RepeatReturn

SpecDeco == InitDeco /\ [][NextDeco]_vars

(***************************************************************************)
(* Vocabulary of the statements below.  The statements describe the        *)
(* expected file name on their own terms, not through the operators of the *)
(* path resolution above.                                                  *)
(***************************************************************************)
cur == inv[1]

\* the invocation of process 1 has resolved its path
Resolved == pc[1] # "idle"

KeyGiven(kwargs) == \E i \in 1..Len(kwargs) : kwargs[i][1] = NC_DUMP_FILE

KeyValue(kwargs) == kwargs[CHOOSE i \in 1..Len(kwargs) : kwargs[i][1] = NC_DUMP_FILE][2]

\* the file name is derived from the arguments
AutoDerived ==
    /\ Resolved
    /\ cfg.filename = None
    /\ KeyGiven(cur.kwargs) => KeyValue(cur.kwargs) = NoneV

\* string form of each positional argument, then key followed by the string
\* form of the value for each keyword argument
ArgStrings(args, kwargs) ==
    [i \in 1..(Len(args) + Len(kwargs)) |->
        IF i <= Len(args) THEN PyStr(args[i])
        ELSE kwargs[i - Len(args)][1] \o PyStr(kwargs[i - Len(args)][2])]

\* the first n strings, with sep between neighbours
RECURSIVE Glue(_, _, _)
Glue(strs, sep, n) ==
    IF n = 0 THEN <<>>
    ELSE IF n = 1 THEN strs[1]
    ELSE Glue(strs, sep, n - 1) \o sep \o strs[n]

Disallowed == {" ", ":", "(", ")", "[", "]", "\n", ",", "."}

Without(str) == SelectSeq(str, LAMBDA c : c \notin Disallowed)

\* the stripped string of the current call's arguments, joined with sep
Stripped(sep) ==
    LET strs == ArgStrings(cur.args, cur.kwargs)
    IN  Without(Glue(strs, sep, Len(strs)))

\* a file name without its last three characters
Stem(name) == SubSeq(name, 1, Len(name) - 3)

AtMost(str, k) == IF k >= Len(str) THEN str ELSE SubSeq(str, 1, k)

SameKwargsAnyOrder(a, b) ==
    {a[i] : i \in 1..Len(a)} = {b[i] : i \in 1..Len(b)}

\* process 1 resolved a path in this run and in the run before
TwoResolutions == prev.st # "none" /\ pc[1] = "isfile"

(***************************************************************************)
(* C5: auto-derived file name                                              *)
(***************************************************************************)
\* C5 as claimed: with no configured filename and no nc_dump_file keyword, the
\* file name is the plain concatenation (no separator) of the arguments'
\* string forms, stripped, cut to keep_chars characters, plus ".nc"; f(1, 2)
\* with keep_chars = 15 gives "12.nc".
C5_Original ==
    (Resolved /\ cfg.filename = None /\ ~KeyGiven(cur.kwargs) /\ cfg.keep_chars >= 0) =>
        /\ cur.nc_filename = AtMost(Stripped(<<>>), cfg.keep_chars) \o DOT_NC
        /\ (cur.args = <<IntV(1), IntV(2)>> /\ cur.kwargs = <<>>
              /\ cfg.keep_chars = DefaultKeepChars)
           => cur.nc_filename = <<"1", "2", ".", "n", "c">>

\* C5 amended: the string forms are joined with "_" between them (a keyword
\* argument contributes its key directly followed by its value), then
\* stripped, cut to at most keep_chars characters (keep_chars >= 0), plus
\* ".nc"; f(1, 2) with keep_chars = 15 gives "1_2.nc".
C5_AutoFilename ==
    (Resolved /\ cfg.filename = None /\ ~KeyGiven(cur.kwargs) /\ cfg.keep_chars >= 0) =>
        /\ cur.nc_filename = AtMost(Stripped(<<"_">>), cfg.keep_chars) \o DOT_NC
        /\ (cur.args = <<IntV(1), IntV(2)>> /\ cur.kwargs = <<>>
              /\ cfg.keep_chars = DefaultKeepChars)
           => cur.nc_filename = <<"1", "_", "2", ".", "n", "c">>

C5_Witness ==
    /\ Resolved /\ cfg.filename = None /\ ~KeyGiven(cur.kwargs)
    /\ cfg.keep_chars = DefaultKeepChars
    /\ Len(cur.args) >= 2 /\ Len(cur.kwargs) >= 1

(***************************************************************************)
(* C6: a configured filename wins                                          *)
(***************************************************************************)
\* the base directory of the current call: store_path, or the working directory
Base == IF cfg.store_path = None THEN cur.cwd ELSE cfg.store_path

\* C6: with a configured filename every call resolves to the path
\* join(join(store_path or cwd, "nc_dump"), filename), the filename verbatim,
\* whatever the positional and keyword arguments, nc_dump_file included; for
\* a relative filename that path reads <store_path or cwd>/nc_dump/<filename>.
C6_ExplicitFilename ==
    (Resolved /\ cfg.filename # None) =>
        /\ cur.nc_filename = cfg.filename
        /\ cur.nc_fullpath = OsPathJoin(OsPathJoin(Base, NC_DUMP), cfg.filename)
        /\ Head(cfg.filename) # "/" =>
               cur.nc_fullpath = Base \o <<"/">> \o NC_DUMP \o <<"/">> \o cfg.filename

C6_Witness ==
    /\ Resolved /\ cfg.filename = R_NC
    /\ cur.args # <<>>
    /\ KeyGiven(cur.kwargs) /\ KeyValue(cur.kwargs) # NoneV
    /\ cur.nc_filename = R_NC

(***************************************************************************)
(* C7: the nc_dump_file keyword                                            *)
(***************************************************************************)
\* C7 as claimed: with no configured filename, whenever the keyword arguments
\* contain nc_dump_file the file name is that key's value, as given.
C7_Original ==
    (Resolved /\ cfg.filename = None /\ KeyGiven(cur.kwargs)) =>
        /\ KeyValue(cur.kwargs).t = "str"
        /\ cur.nc_filename = KeyValue(cur.kwargs).s

\* C7 amended: with no configured filename, whenever the keyword arguments
\* contain nc_dump_file with a value other than None, the file name is that
\* value as given: not stripped, not cut, no extension added.
C7_Override ==
    (Resolved /\ cfg.filename = None /\ KeyGiven(cur.kwargs)
       /\ KeyValue(cur.kwargs) # NoneV) =>
        cur.nc_filename = KeyValue(cur.kwargs).s

\* the value holds disallowed characters and is longer than keep_chars
C7_Witness ==
    /\ Resolved /\ cfg.filename = None /\ KeyGiven(cur.kwargs)
    /\ KeyValue(cur.kwargs) # NoneV
    /\ cfg.keep_chars >= 0
    /\ Len(KeyValue(cur.kwargs).s) > cfg.keep_chars
    /\ \E i \in 1..Len(cur.nc_filename) : cur.nc_filename[i] = " "

(***************************************************************************)
(* C8: character stripping                                                 *)
(***************************************************************************)
\* C8 as claimed: an auto-derived file name holds none of the characters
\* space : ( ) [ ] newline , .
C8_Original ==
    AutoDerived =>
        \A i \in 1..Len(cur.nc_filename) : cur.nc_filename[i] \notin Disallowed

\* C8 amended: an auto-derived file name ends with ".nc", and the part before
\* that extension holds none of the characters space : ( ) [ ] newline , .
C8_Stripping ==
    AutoDerived =>
        /\ Len(cur.nc_filename) >= 3
        /\ SubSeq(cur.nc_filename, Len(cur.nc_filename) - 2, Len(cur.nc_filename)) = DOT_NC
        /\ \A i \in 1..Len(Stem(cur.nc_filename)) :
               Stem(cur.nc_filename)[i] \notin Disallowed

\* the arguments' string forms hold a disallowed character within the first
\* keep_chars characters
C8_Witness ==
    /\ AutoDerived
    /\ LET strs == ArgStrings(cur.args, cur.kwargs)
           joined == Glue(strs, <<"_">>, Len(strs))
       IN  \E i \in 1..Len(joined) : i <= cfg.keep_chars /\ joined[i] \in Disallowed

(***************************************************************************)
(* C9: truncation                                                          *)
(***************************************************************************)
\* C9 as claimed: for every integer keep_chars, when the stripped string is
\* longer than keep_chars the part before ".nc" is its first keep_chars
\* characters, exactly keep_chars of them; otherwise it is the whole string.
C9_Original ==
    AutoDerived =>
        IF Len(Stripped(<<"_">>)) > cfg.keep_chars
        THEN /\ Len(Stem(cur.nc_filename)) = cfg.keep_chars
             /\ Stem(cur.nc_filename) = SubSeq(Stripped(<<"_">>), 1, cfg.keep_chars)
        ELSE Stem(cur.nc_filename) = Stripped(<<"_">>)

\* C9 amended: the same for every integer keep_chars >= 0.
C9_Truncation ==
    (AutoDerived /\ cfg.keep_chars >= 0) =>
        IF Len(Stripped(<<"_">>)) > cfg.keep_chars
        THEN /\ Len(Stem(cur.nc_filename)) = cfg.keep_chars
             /\ Stem(cur.nc_filename) = SubSeq(Stripped(<<"_">>), 1, cfg.keep_chars)
        ELSE Stem(cur.nc_filename) = Stripped(<<"_">>)

C9_Witness ==
    /\ AutoDerived
    /\ cfg.keep_chars = DefaultKeepChars
    /\ Len(Stripped(<<"_">>)) > cfg.keep_chars
    /\ Len(cur.nc_filename) = DefaultKeepChars + 3

(***************************************************************************)
(* C10: the storage path across calls and process runs                     *)
(***************************************************************************)
\* C10 as claimed: two invocations with the same positional arguments, the
\* same keyword arguments and the same configuration resolve the same path,
\* whatever else differs between their process runs.
C10_Original ==
    (TwoResolutions /\ prev.args = cur.args
       /\ SameKwargsAnyOrder(prev.kwargs, cur.kwargs)) =>
        prev.nc_fullpath = cur.nc_fullpath

\* C10 amended: two invocations with the same positional arguments, the same
\* keyword arguments passed in the same order and the same configuration
\* resolve the same path, provided store_path is configured or both run in
\* the same working directory.
C10_Determinism ==
    (TwoResolutions /\ prev.args = cur.args /\ prev.kwargs = cur.kwargs
       /\ (cfg.store_path # None \/ prev.cwd = cur.cwd)) =>
        prev.nc_fullpath = cur.nc_fullpath

\* two runs in different working directories, store_path configured
C10_Witness ==
    /\ TwoResolutions /\ prev.args = cur.args /\ prev.kwargs = cur.kwargs
    /\ prev.cwd # cur.cwd
    /\ cfg.store_path # None /\ cfg.filename = None
    /\ Len(cur.args) >= 2 /\ Len(cur.kwargs) >= 2
    /\ prev.nc_fullpath = cur.nc_fullpath

(***************************************************************************)
(* Statements about sequential calls (specification Spec).  prev is the    *)
(* call process 1 finished last, cur the call it is in or finished now.    *)
(***************************************************************************)
SameCall == prev.args = cur.args /\ prev.kwargs = cur.kwargs

\* no file at the path when it was checked, and the function returned None
NullMiss(r) == r.found = "no" /\ r.ds = NoneDs

Finished(r) == r.st \in {"returned", "raised"}

(***************************************************************************)
(* C1: cache hit                                                           *)
(***************************************************************************)
\* C1: an invocation whose existence check found a file at its path never
\* calls the wrapped function, and what it returns is the deserialized
\* content of the file it found.
C1_CacheHit ==
    \A p \in Procs :
        inv[p].found = "yes" =>
            /\ inv[p].ncalled = 0
            /\ inv[p].seen.kind = "file"
            /\ inv[p].st = "returned" =>
                   (inv[p].seen.fmt = "netcdf" /\ inv[p].ds = inv[p].seen.data)

C1_Witness ==
    /\ pc[1] = "done" /\ cur.st = "returned"
    /\ cur.found = "yes" /\ cur.ncalled = 0
    /\ cur.ds \in Datasets
    /\ fs[cur.nc_fullpath] = NcFile(cur.ds)

(***************************************************************************)
(* C2: idempotence                                                         *)
(***************************************************************************)
\* C2 as claimed: of two successive calls with identical arguments, the
\* second returns what the first returned, and the wrapped function runs at
\* most once across the two.
C2_Original ==
    (prev.st = "returned" /\ SameCall) =>
        /\ prev.ncalled + cur.ncalled <= 1
        /\ cur.st = "returned" => cur.ds = prev.ds

\* C2 amended: the same, provided the first call returns a result other than
\* None: the second call then finds the file, does not call the wrapped
\* function, does not fail, and returns what the first returned.
C2_Idempotence ==
    (prev.st = "returned" /\ prev.ds # NoneDs /\ SameCall) =>
        /\ prev.ncalled + cur.ncalled <= 1
        /\ cur.found # "no"
        /\ cur.st # "raised"
        /\ cur.st = "returned" => cur.ds = prev.ds

\* the first call computed and stored d2, the second read it back
C2_Witness ==
    /\ prev.st = "returned" /\ prev.ncalled = 1 /\ prev.ds = "d2"
    /\ SameCall
    /\ cur.st = "returned" /\ cur.found = "yes" /\ cur.ncalled = 0 /\ cur.ds = "d2"

(***************************************************************************)
(* C3: a None result is not stored                                         *)
(***************************************************************************)
\* C3: a call that finds no file and whose function returns None creates no
\* file at the path and returns None to the caller, and the next call with
\* the same arguments calls the function again.
C3_Claim ==
    /\ (NullMiss(cur) /\ Finished(cur)) =>
          /\ cur.st = "returned"
          /\ ~OsPathIsFile(cur.nc_fullpath)
    /\ (NullMiss(prev) /\ prev.st = "returned" /\ SameCall) =>
          /\ cur.found # "yes"
          /\ pc[1] \notin {"isfile", "func"} => cur.ncalled = 1

(***************************************************************************)
(* C4: a None result leaves the filesystem alone                           *)
(***************************************************************************)
\* C4: once the function has returned None on a miss, no step of that
\* invocation changes the filesystem; the storage directory is not created.
C4_Claim ==
    [][(NullMiss(cur) /\ pc[1] \in {"isdir", "makedirs", "tonetcdf"}) => fs' = fs]_vars

(***************************************************************************)
(* C11: two concurrent misses (specification SpecConc)                     *)
(***************************************************************************)
\* both invocations found no file at the same path, computed a Dataset and
\* returned
BothMissedAndReturned ==
    /\ inv[1].found = "no" /\ inv[2].found = "no"
    /\ inv[1].nc_fullpath = inv[2].nc_fullpath
    /\ inv[1].st = "returned" /\ inv[2].st = "returned"
    /\ inv[1].ds \in Datasets /\ inv[2].ds \in Datasets

\* C11: when two concurrent invocations with the same path both found no
\* file, both computed and both wrote, the file holds the result of the one
\* that wrote last, and each returned the result it computed itself.
C11_LastWriterWins ==
    BothMissedAndReturned =>
        \E p \in Procs :
            /\ inv[p].last /\ ~inv[3 - p].last
            /\ Entry(inv[p].nc_fullpath) = NcFile(inv[p].ds)
            /\ inv[1].ncalled = 1 /\ inv[2].ncalled = 1

\* both missed, computed different results, process 2 wrote first
C11_Witness ==
    /\ BothMissedAndReturned
    /\ inv[1].ds = "d1" /\ inv[2].ds = "d2"
    /\ inv[1].last
    /\ fs[inv[1].nc_fullpath] = NcFile("d1")

(***************************************************************************)
(* C12: the result and the outcome of the write                            *)
(***************************************************************************)
\* C12 as claimed: on a miss with a result other than None, the caller gets
\* the computed result whether to_netcdf succeeds or fails.
C12_Original ==
    (cur.found = "no" /\ cur.ds \in Datasets
       /\ (cur.err = "write" \/ cur.st = "returned")) =>
        cur.st = "returned"

\* C12 amended: on a miss with a result other than None, the caller gets the
\* computed result when to_netcdf succeeds, the file then holding it; when
\* to_netcdf (or makedirs before it) fails, the call fails with that error.
C12_FreshResult ==
    (cur.found = "no" /\ cur.ds \in Datasets /\ Finished(cur)) =>
        /\ cur.ncalled = 1
        /\ cur.st = "returned" =>
               (cur.err = "-" /\ Entry(cur.nc_fullpath) = NcFile(cur.ds))
        /\ cur.st = "raised" => cur.err \in {"write", "makedirs"}

C12_Witness ==
    /\ cur.found = "no" /\ cur.ds \in Datasets /\ cur.ncalled = 1
    /\ cur.st = "raised" /\ cur.err = "write"
    /\ ~OsPathIsFile(cur.nc_fullpath)

(***************************************************************************)
(* C13: an unreadable file                                                 *)
(***************************************************************************)
\* C13: a call that finds an unreadable file at its path fails with the read
\* error without calling the function, and no step changes an unreadable
\* file, so every later call to that path fails the same way.
C13_ReadFailure ==
    /\ [](\A p \in Procs :
            (inv[p].found = "yes" /\ inv[p].seen = Junk) =>
                /\ inv[p].ncalled = 0
                /\ inv[p].st # "returned"
                /\ Finished(inv[p]) => inv[p].err = "open"
                /\ Entry(inv[p].nc_fullpath) = Junk)
    /\ [][\A path \in DOMAIN fs :
            fs[path] = Junk => (path \in DOMAIN fs' /\ fs'[path] = Junk)]_vars

\* two calls in a row failed on the same unreadable file
C13_Witness ==
    /\ prev.err = "open" /\ cur.err = "open"
    /\ prev.nc_fullpath = cur.nc_fullpath
    /\ cur.ncalled = 0
    /\ fs[cur.nc_fullpath] = Junk

(***************************************************************************)
(* C14: a stored file is never invalidated                                 *)
(***************************************************************************)
\* C14: under sequential calls no step deletes or overwrites a file that
\* exists.
C14_NeverInvalidated ==
    [][\A path \in DOMAIN fs :
          fs[path].kind = "file" => (path \in DOMAIN fs' /\ fs'[path] = fs[path])]_vars

\* a stored result was found by the next call and is still there
C14_Witness ==
    /\ prev.st = "returned" /\ prev.ncalled = 1 /\ prev.ds = "d1"
    /\ prev.nc_fullpath = cur.nc_fullpath
    /\ pc[1] = "done" /\ cur.found = "yes"
    /\ fs[cur.nc_fullpath] = NcFile("d1")

(***************************************************************************)
(* C15: the directory-creation race (specification SpecConc)               *)
(***************************************************************************)
\* C15: when two concurrent invocations start with their common storage
\* directory absent, neither fails creating it, and when both return a
\* Dataset a result file is stored.
C15_Claim ==
    (pc[1] # "idle" /\ pc[2] # "idle"
       /\ inv[1].nc_dir = inv[2].nc_dir
       /\ inv[1].dir0 = "absent" /\ inv[2].dir0 = "absent") =>
        /\ \A p \in Procs : inv[p].err # "makedirs"
        /\ \A p \in Procs :
              (inv[p].st = "returned" /\ inv[p].found = "no" /\ inv[p].ds \in Datasets)
                  => OsPathIsFile(inv[p].nc_fullpath)

(***************************************************************************)
(* C16: two calls with one storage path                                    *)
(***************************************************************************)
\* C16: when a call stored a Dataset and the next call, with other arguments,
\* resolves the same path, the next call returns the stored Dataset and does
\* not call the function.
C16_KeyCollision ==
    (prev.st = "returned" /\ prev.found = "no" /\ prev.ds \in Datasets
       /\ ~SameCall /\ prev.nc_fullpath = cur.nc_fullpath) =>
        /\ cur.ncalled = 0
        /\ cur.found # "no"
        /\ cur.st # "raised"
        /\ cur.st = "returned" => cur.ds = prev.ds

\* f(1, 2) and f(1, 3) with keep_chars = 1 both resolve "1.nc"
C16_Witness ==
    /\ cfg.filename = None /\ cfg.keep_chars = 1
    /\ prev.st = "returned" /\ prev.found = "no" /\ prev.ds \in Datasets
    /\ prev.args # cur.args /\ prev.kwargs = <<>> /\ cur.kwargs = <<>>
    /\ prev.nc_fullpath = cur.nc_fullpath
    /\ cur.st = "returned" /\ cur.found = "yes" /\ cur.ds = prev.ds

(***************************************************************************)
(* Statements about cache, count_calls and repeat                          *)
(***************************************************************************)
\* C17: every call of the cached function that returns, returns the value
\* the wrapped function produces for that call's own pair of positional and
\* keyword arguments, never a value computed for another pair, also when the
\* pairs differ only in a (name, value) passed as a positional tuple or as a
\* keyword argument.
C17_Claim ==
    (dcall.deco = "cache" /\ dcall.st = "returned")
        => dcall.cval = FuncOf(dcall.args, dcall.kwargs)

\* C18: num_calls equals the number of wrapper invocations started so far:
\* it is 0 before the first one, it is already incremented while the wrapped
\* function runs and stays so when that function raises, and every step
\* leaves it alone or adds exactly 1 to it on entry of the wrapper.
C18_Counter ==
    /\ [](/\ num_calls = started
          /\ (started = 0 => num_calls = 0)
          /\ (dcall.deco = "count" => num_calls >= dcall.i))
    /\ [][\/ num_calls' = num_calls
          \/ /\ num_calls' = num_calls + 1
             /\ dpc = "idle"
             /\ dpc' = "count_func"]_vars

\* a second invocation is counted although its wrapped function raised
C18_Witness ==
    /\ dcall.deco = "count"
    /\ dcall.st = "raised"
    /\ dcall.i = 2
    /\ num_calls = 2

\* C19: for every num_times >= 0, an invocation of the repeating wrapper in
\* which the wrapped function does not raise returns, after exactly
\* num_times calls of the wrapped function, the value of the last call.
C19_Claim ==
    (dcall.deco = "repeat" /\ dcall.st \in {"returned", "raised"}
                           /\ dcall.err # "func")
        => /\ dcall.st = "returned"
           /\ dcall.i = num_times
           /\ dcall.value \in FuncValues

====
